---------------------------- MODULE Spec2Model ----------------------------
(***************************************************************************)
(* Model of server/controllers/plannerController.js: the study-plan        *)
(* scheduling engine (buildStructuredPlan and its helpers), the createPlan *)
(* handler and the pushPlanToGoogle export handler.                        *)
(*                                                                         *)
(* Instants are integers: minutes since local midnight of the anchor date. *)
(* Every Date the engine builds has seconds and milliseconds zero, so the  *)
(* minute is the exact unit.  The process time zone is taken to have no    *)
(* daylight-saving transition inside the horizon: setDate(d + 1) advances  *)
(* an instant by MinutesPerDay.                                            *)
(***************************************************************************)
EXTENDS Integers, Sequences, FiniteSets, TLC

(***************************************************************************)
(* Bounds of the model.                                                    *)
(***************************************************************************)
MaxDays == 2
MaxSubjects == 3
MaxRemaining == 200

(***************************************************************************)
(* Program constants.                                                      *)
(***************************************************************************)
FIXED_BREAKS ==
  << [title |-> <<"Lunch Break">>, startHour |-> 13, endHour |-> 14],
     [title |-> <<"Snack Break">>, startHour |-> 17, endHour |-> 18],
     [title |-> <<"Dinner Break">>, startHour |-> 20, endHour |-> 21] >>

MIN_BLOCK_MINUTES == 60
MAX_BLOCK_MINUTES == 120
MAX_STUDY_HOURS_PER_DAY == 8
MAX_PLANNED_DAYS == 60
MinutesPerDay == 24 * 60

(***************************************************************************)
(* Input domains.  Times of day are { hours, minutes } pairs as returned   *)
(* by parseTimeString; the hours are chosen around the fixed breaks and    *)
(* the part hours give residues shorter than one block.                    *)
(***************************************************************************)
HourChoices == {0, 7, 9, 12, 13, 14, 17, 18, 20, 22}
MinuteChoices == {0, 15, 30}
TimesOfDay == [hours : HourChoices, minutes : MinuteChoices]
AllSubjects == <<"Math", "Physics", "Chemistry", "Biology", "History">>
CapChoices == {60, 150, 420, 480}

Min(a, b) == IF a <= b THEN a ELSE b
Max(a, b) == IF a >= b THEN a ELSE b

(***************************************************************************)
(* Date helpers.                                                           *)
(***************************************************************************)
minutesBetweenDates(start, end) == Max(0, end - start)

addMinutes(date, minutes) == date + minutes

\* new Date(anchor); setDate(getDate() + dayIndex); setHours(h, m, 0, 0)
AtDayTime(dayIndex, hours, minutes) == dayIndex * MinutesPerDay + hours * 60 + minutes

getDailyWindow(dayIndex, startTime, endTime) ==
  LET dayStart == AtDayTime(dayIndex, startTime.hours, startTime.minutes)
      dayEnd0 == AtDayTime(dayIndex, endTime.hours, endTime.minutes)
      dayEnd == IF dayEnd0 <= dayStart THEN dayEnd0 + MinutesPerDay ELSE dayEnd0
  IN [dayStart |-> dayStart, dayEnd |-> dayEnd]

(***************************************************************************)
(* Array.prototype.sort((a, b) => a.start - b.start): a stable sort by     *)
(* start, here as an insertion sort.                                       *)
(***************************************************************************)
RECURSIVE InsertByStart(_, _)
InsertByStart(sorted, x) ==
  IF sorted = << >> THEN << x >>
  ELSE IF sorted[Len(sorted)].start <= x.start THEN Append(sorted, x)
  ELSE Append(InsertByStart(SubSeq(sorted, 1, Len(sorted) - 1), x), sorted[Len(sorted)])

RECURSIVE SortByStart(_)
SortByStart(s) ==
  IF s = << >> THEN << >>
  ELSE InsertByStart(SortByStart(SubSeq(s, 1, Len(s) - 1)), s[Len(s)])

(***************************************************************************)
(* buildBreaksForDay                                                       *)
(***************************************************************************)
\* The candidate interval of one fixed break: built on the day's calendar
\* date, its end wrapped past midnight, then both ends shifted by a day
\* when the start precedes the window.
BreakCandidate(dayIndex, brk, windowStart) ==
  LET start0 == AtDayTime(dayIndex, brk.startHour, 0)
      end0 == AtDayTime(dayIndex, brk.endHour, 0)
      end1 == IF end0 <= start0 THEN end0 + MinutesPerDay ELSE end0
      shift == IF start0 < windowStart THEN MinutesPerDay ELSE 0
  IN [title |-> brk.title, start |-> start0 + shift, end |-> end1 + shift]

BreakKeptOverlapping(cand, windowStart, windowEnd) ==
  cand.start >= windowStart /\ cand.start <= windowEnd

BreakKept(cand, windowStart, windowEnd) ==
  cand.start >= windowStart /\ cand.end <= windowEnd

RECURSIVE CollectBreaks(_, _, _, _)
CollectBreaks(i, dayIndex, windowStart, windowEnd) ==
  IF i = 0 THEN << >>
  ELSE LET rest == CollectBreaks(i - 1, dayIndex, windowStart, windowEnd)
           cand == BreakCandidate(dayIndex, FIXED_BREAKS[i], windowStart)
       IN IF BreakKept(cand, windowStart, windowEnd) THEN Append(rest, cand) ELSE rest

buildBreaksForDay(dayIndex, windowStart, windowEnd) ==
  SortByStart(CollectBreaks(Len(FIXED_BREAKS), dayIndex, windowStart, windowEnd))

(***************************************************************************)
(* buildStudyWindows                                                       *)
(***************************************************************************)
\* The loop over the sorted breaks: st = [cursor, windows].
RECURSIVE WalkBreaksStuck(_, _, _)
WalkBreaksStuck(sortedBreaks, i, st0) ==
  IF i = 0 THEN st0
  ELSE LET st == WalkBreaksStuck(sortedBreaks, i - 1, st0)
           brk == sortedBreaks[i]
           pushed == IF brk.start > st.cursor
                     THEN Append(st.windows, [start |-> st.cursor, end |-> brk.start])
                     ELSE st.windows
       IN [cursor |-> st.cursor, windows |-> pushed]

RECURSIVE WalkBreaks(_, _, _)
WalkBreaks(sortedBreaks, i, st0) ==
  IF i = 0 THEN st0
  ELSE LET st == WalkBreaks(sortedBreaks, i - 1, st0)
           brk == sortedBreaks[i]
           pushed == IF brk.start > st.cursor
                     THEN Append(st.windows, [start |-> st.cursor, end |-> brk.start])
                     ELSE st.windows
           cursor == IF brk.end > st.cursor THEN brk.end ELSE st.cursor
       IN [cursor |-> cursor, windows |-> pushed]

SlotLongEnoughForMax(slot) == minutesBetweenDates(slot.start, slot.end) >= MAX_BLOCK_MINUTES

SlotLongEnough(slot) == minutesBetweenDates(slot.start, slot.end) >= MIN_BLOCK_MINUTES

buildStudyWindowsUnsorted(dayStart, dayEnd, breaks) ==
  LET st == WalkBreaks(breaks, Len(breaks), [cursor |-> dayStart, windows |-> << >>])
      all == IF st.cursor < dayEnd
             THEN Append(st.windows, [start |-> st.cursor, end |-> dayEnd])
             ELSE st.windows
  IN SelectSeq(all, SlotLongEnough)

buildStudyWindows(dayStart, dayEnd, breaks) ==
  LET sortedBreaks == SortByStart(breaks)
      st == WalkBreaks(sortedBreaks, Len(sortedBreaks), [cursor |-> dayStart, windows |-> << >>])
      all == IF st.cursor < dayEnd
             THEN Append(st.windows, [start |-> st.cursor, end |-> dayEnd])
             ELSE st.windows
  IN SelectSeq(all, SlotLongEnough)

(***************************************************************************)
(* Block sizing                                                            *)
(***************************************************************************)
\* perSubject = availableMinutes / subjectCount is a real division;
\* perSubject >= 90 is availableMinutes >= 90 * subjectCount.
choosePreferredBlockMinutes(availableMinutes, subjectCount) ==
  IF availableMinutes < MIN_BLOCK_MINUTES \/ subjectCount <= 0 THEN 0
  ELSE IF availableMinutes >= 90 * subjectCount /\ availableMinutes >= MAX_BLOCK_MINUTES
       THEN MAX_BLOCK_MINUTES
       ELSE MIN_BLOCK_MINUTES

pickBlockLengthIgnoreCap(preferred, slotRemaining, capRemaining) ==
  IF preferred # 0 /\ slotRemaining >= preferred THEN preferred
  ELSE IF slotRemaining >= MIN_BLOCK_MINUTES THEN MIN_BLOCK_MINUTES
  ELSE 0

pickBlockLengthNoFallback(preferred, slotRemaining, capRemaining) ==
  IF preferred # 0 /\ slotRemaining >= preferred /\ capRemaining >= preferred THEN preferred
  ELSE 0

pickBlockLength(preferred, slotRemaining, capRemaining) ==
  IF preferred # 0 /\ slotRemaining >= preferred /\ capRemaining >= preferred THEN preferred
  ELSE IF slotRemaining >= MIN_BLOCK_MINUTES /\ capRemaining >= MIN_BLOCK_MINUTES
       THEN MIN_BLOCK_MINUTES
       ELSE 0


(***************************************************************************)
(* buildStructuredPlan                                                     *)
(***************************************************************************)
BreakItem(brk) ==
  [subjectId |-> "null", title |-> brk.title, start |-> brk.start, end |-> brk.end,
   completed |-> FALSE]

RECURSIVE BreakItems(_)
BreakItems(breaks) ==
  IF breaks = << >> THEN << >>
  ELSE << BreakItem(Head(breaks)) >> \o BreakItems(Tail(breaks))

\* The template literal `Study ${subjectName}`: the title is the pair of
\* the literal prefix and the subject name.
StudyTitle(subjectName) == << "Study ", subjectName >>

InitialSubjectCursor == 0

SubjectAtShifted(subjectNames, subjectCursor) ==
  subjectNames[((subjectCursor + 1) % Len(subjectNames)) + 1]

\* subjectNames[subjectCursor % subjectNames.length], arrays being 0-based
SubjectAt(subjectNames, subjectCursor) ==
  subjectNames[(subjectCursor % Len(subjectNames)) + 1]

\* The while loop of one free slot; st = [minutesScheduled, subjectCursor,
\* sessions].  It ends when the cap is reached or no block fits.
RECURSIVE PackWindow(_, _, _, _, _, _)
PackWindow(subjectNames, preferredBlock, dayCap, window, cursor, st) ==
  IF ~(st.minutesScheduled < dayCap) THEN st
  ELSE LET slotRemaining == minutesBetweenDates(cursor, window.end)
           capRemaining == dayCap - st.minutesScheduled
           blockLength == pickBlockLength(preferredBlock, slotRemaining, capRemaining)
       IN IF blockLength = 0 THEN st
          ELSE LET subjectName == SubjectAt(subjectNames, st.subjectCursor)
                   start == cursor
                   end == addMinutes(start, blockLength)
                   session == [subjectId |-> "null", title |-> StudyTitle(subjectName),
                               start |-> start, end |-> end, completed |-> FALSE]
               IN PackWindow(subjectNames, preferredBlock, dayCap, window, end,
                             [minutesScheduled |-> st.minutesScheduled + blockLength,
                              subjectCursor |-> st.subjectCursor + 1,
                              sessions |-> Append(st.sessions, session)])

PackWindowsFirstOnly(subjectNames, preferredBlock, dayCap, windows, i, st) ==
  IF i > Len(windows) THEN st
  ELSE PackWindow(subjectNames, preferredBlock, dayCap, windows[i], windows[i].start, st)

\* The for loop over the free slots, left once the cap is reached.
RECURSIVE PackWindows(_, _, _, _, _, _)
PackWindows(subjectNames, preferredBlock, dayCap, windows, i, st) ==
  IF i > Len(windows) THEN st
  ELSE LET after == PackWindow(subjectNames, preferredBlock, dayCap, windows[i],
                               windows[i].start, st)
       IN IF after.minutesScheduled >= dayCap THEN after
          ELSE PackWindows(subjectNames, preferredBlock, dayCap, windows, i + 1, after)

RECURSIVE SumMinutes(_)
SumMinutes(slots) ==
  IF slots = << >> THEN 0
  ELSE minutesBetweenDates(Head(slots).start, Head(slots).end) + SumMinutes(Tail(slots))

DayCapOf(maxStudyMinutesPerDay, availableMinutes) ==
  Min(maxStudyMinutesPerDay, availableMinutes)

\* One iteration of the loop over the days: everything the iteration
\* computes, and the items it pushes.
DayPlan(args, dayIndex, subjectCursor) ==
  LET w == getDailyWindow(dayIndex, args.startTime, args.endTime)
      breaks == buildBreaksForDay(dayIndex, w.dayStart, w.dayEnd)
      windows == buildStudyWindows(w.dayStart, w.dayEnd, breaks)
      availableMinutes == SumMinutes(windows)
      preferredBlock == choosePreferredBlockMinutes(availableMinutes, Len(args.subjectNames))
      packs == availableMinutes # 0 /\ preferredBlock # 0
      dayCap == DayCapOf(args.maxStudyMinutesPerDay, availableMinutes)
      st == IF packs
            THEN PackWindows(args.subjectNames, preferredBlock, dayCap, windows, 1,
                             [minutesScheduled |-> 0, subjectCursor |-> subjectCursor,
                              sessions |-> << >>])
            ELSE [minutesScheduled |-> 0, subjectCursor |-> subjectCursor,
                  sessions |-> << >>]
      combined == IF packs
                  THEN SortByStart(st.sessions \o BreakItems(breaks))
                  ELSE BreakItems(breaks)
  IN [dayIndex |-> dayIndex, dayStart |-> w.dayStart, dayEnd |-> w.dayEnd,
      breaks |-> breaks, windows |-> windows, availableMinutes |-> availableMinutes,
      preferredBlock |-> preferredBlock, packs |-> packs, dayCap |-> dayCap,
      sessions |-> st.sessions, minutesScheduled |-> st.minutesScheduled,
      subjectCursor |-> st.subjectCursor, combined |-> combined]

\* The loop over dayIndex from fromDay up to, not including, toDay, entered
\* with st = [subjectCursor, items].  The days are taken in order; the range
\* of the loop is halved so that the evaluation nests to logarithmic depth.
RECURSIVE PlanDays(_, _, _, _)
PlanDays(args, fromDay, toDay, st) ==
  IF ~(fromDay < toDay) THEN st
  ELSE IF toDay = fromDay + 1
  THEN LET d == DayPlan(args, fromDay, st.subjectCursor)
       IN [subjectCursor |-> d.subjectCursor, items |-> st.items \o d.combined]
  ELSE CHOOSE out \in { PlanDays(args, fromDay + (toDay - fromDay) \div 2, toDay, firstHalf) :
                           firstHalf \in { PlanDays(args, fromDay,
                                                    fromDay + (toDay - fromDay) \div 2, st) } } :
         TRUE

buildStructuredPlan(args) ==
  PlanDays(args, 0, args.totalDays,
           [subjectCursor |-> InitialSubjectCursor, items |-> << >>]).items

(***************************************************************************)
(* State.                                                                  *)
(***************************************************************************)
VARIABLES
  \* one run of buildStructuredPlan
  pc,             \* "idle", "loop" (in the loop over the days), "done"
  args,           \* the argument object of the call
  dayIndex,       \* the loop variable
  subjectCursor,  \* the round-robin cursor
  items,          \* the result list
  day,            \* what the latest iteration computed (DayPlan)
  sessionLog,     \* the sessions of the run in the order they were created
  \* one call of pickBlockLength
  pick,
  \* one call of buildStudyWindows
  win,
  \* the createPlan handler and the StudyPlan collection of the owner
  plans,          \* the stored plans, oldest first
  req,            \* the request handled last
  res,            \* the response sent last
  \* the pushPlanToGoogle handler
  user,           \* the owner's User document
  env,            \* the Google OAuth settings of the process
  now,            \* the clock at the request
  gpc,            \* "idle", "refresh", "loadPlan", "insert", "done"
  before,         \* user.google as the request found it
  refreshed,      \* what the token refresh of the request did
  plan,           \* the items of the plan being exported
  idx,            \* the position of the loop over plan.items
  created,        \* the counter of created events
  errors,         \* the collected error messages
  inserted        \* the calls of calendar.events.insert so far

engineVars == << pc, args, dayIndex, subjectCursor, items, day, sessionLog >>
pickVars == << pick, win >>
planVars == << plans, req, res >>
pushVars == << user, env, now, gpc, before, refreshed, plan, idx, created, errors, inserted >>
vars == << engineVars, pickVars, planVars, pushVars >>

NoArgs == [totalDays |-> 0]
NoDay == [dayIndex |-> -1]
NoPick == [called |-> FALSE]
NoWin == [called |-> FALSE]
NoReq == [op |-> "none"]
NoRes == [status |-> 0]

EngineIdle ==
  /\ pc = "idle"
  /\ args = NoArgs
  /\ dayIndex = 0
  /\ subjectCursor = InitialSubjectCursor
  /\ items = << >>
  /\ day = NoDay
  /\ sessionLog = << >>

PickIdle == pick = NoPick /\ win = NoWin

NoToken == ""
NoExpiry == [set |-> FALSE, at |-> 0]
NoGoogle == [refreshToken |-> FALSE, accessToken |-> NoToken, tokenExpiry |-> NoExpiry]
NoRefresh == [done |-> FALSE, failed |-> FALSE, token |-> NoToken]

PushIdle ==
  /\ user = [exists |-> FALSE, google |-> NoGoogle]
  /\ env = [clientId |-> FALSE, redirectUri |-> FALSE]
  /\ now = 0
  /\ gpc = "idle"
  /\ before = NoGoogle
  /\ refreshed = NoRefresh
  /\ plan = << >>
  /\ idx = 0
  /\ created = 0
  /\ errors = << >>
  /\ inserted = << >>

PlansIdle ==
  /\ plans = << >>
  /\ req = NoReq
  /\ res = NoRes

(***************************************************************************)
(* SpecPlan: runs of buildStructuredPlan, one step per day of the horizon. *)
(***************************************************************************)
\* The arguments createPlan can pass: a non-empty trimmed subject list, the
\* horizon, two parsed times whose window holds at least one block, and a
\* cap no longer than the window.
WindowMinutesOf(startTime, endTime) ==
  LET d == (endTime.hours * 60 + endTime.minutes) - (startTime.hours * 60 + startTime.minutes)
  IN IF d <= 0 THEN d + 24 * 60 ELSE d

EngineArgs ==
  { a \in [subjectNames : { SubSeq(AllSubjects, 1, n) : n \in 1..Min(MaxSubjects, Len(AllSubjects)) },
           totalDays : 1..MaxDays,
           startTime : TimesOfDay,
           endTime : TimesOfDay,
           maxStudyMinutesPerDay : CapChoices] :
      /\ WindowMinutesOf(a.startTime, a.endTime) >= MIN_BLOCK_MINUTES
      /\ a.maxStudyMinutesPerDay <= WindowMinutesOf(a.startTime, a.endTime) }

InitPlan ==
  /\ pc = "loop"
  /\ args \in EngineArgs
  /\ dayIndex = 0
  /\ subjectCursor = InitialSubjectCursor
  /\ items = << >>
  /\ day = NoDay
  /\ sessionLog = << >>
  /\ PickIdle
  /\ PlansIdle
  /\ PushIdle

\* One iteration of for (dayIndex = 0; dayIndex < totalDays; dayIndex++).
PlanDay ==
  /\ pc = "loop"
  /\ dayIndex < args.totalDays
  /\ LET d == DayPlan(args, dayIndex, subjectCursor)
     IN /\ day' = d
        /\ items' = items \o d.combined
        /\ subjectCursor' = d.subjectCursor
        /\ sessionLog' = sessionLog \o d.sessions
  /\ dayIndex' = dayIndex + 1
  /\ UNCHANGED << pc, args, pickVars, planVars, pushVars >>

\* The loop ends and the list is returned.
ReturnPlan ==
  /\ pc = "loop"
  /\ ~(dayIndex < args.totalDays)
  /\ pc' = "done"
  /\ UNCHANGED << args, dayIndex, subjectCursor, items, day, sessionLog, pickVars, planVars, pushVars >>

NextPlan == PlanDay \/ ReturnPlan

SpecPlan == InitPlan /\ [][NextPlan]_vars

(***************************************************************************)
(* SpecPick: calls of pickBlockLength.                                     *)
(***************************************************************************)
PreferredChoices == {0, MIN_BLOCK_MINUTES, MAX_BLOCK_MINUTES}

InitPick ==
  /\ EngineIdle
  /\ PickIdle
  /\ PlansIdle
  /\ PushIdle

CallPick ==
  /\ ~pick.called
  /\ \E preferred \in PreferredChoices, slotRemaining \in 0..MaxRemaining,
        capRemaining \in 0..MaxRemaining :
       pick' = [called |-> TRUE, preferred |-> preferred, slotRemaining |-> slotRemaining,
                capRemaining |-> capRemaining,
                blockLength |-> pickBlockLength(preferred, slotRemaining, capRemaining)]
  /\ UNCHANGED << engineVars, win, planVars, pushVars >>

NextPick == CallPick

SpecPick == InitPick /\ [][NextPick]_vars

(***************************************************************************)
(* SpecWindows: calls of buildStudyWindows with a day window and a list of *)
(* breaks in any order, overlapping or not, inside the window or not.      *)
(* Instants are minutes on a half-hour grid.                               *)
(***************************************************************************)
MaxBreaks == 3

GridTimes == { 30 * k : k \in 0..12 }
DayStartChoices == { 60 }
DayEndChoices == { 270, 300 }
BreakLengthChoices == { 30, 60 }

\* A break is an interval: its end is after its start.
BreakChoices ==
  { [title |-> << "Break" >>, start |-> start, end |-> start + length] :
      start \in GridTimes, length \in BreakLengthChoices }

BreakLists == UNION { [1..n -> BreakChoices] : n \in 0..MaxBreaks }

InitWindows ==
  /\ EngineIdle
  /\ PickIdle
  /\ PlansIdle
  /\ PushIdle

CallBuildStudyWindows ==
  /\ ~win.called
  /\ \E dayStart \in DayStartChoices, dayEnd \in DayEndChoices, breaks \in BreakLists :
       win' = [called |-> TRUE, dayStart |-> dayStart, dayEnd |-> dayEnd, breaks |-> breaks,
               slots |-> buildStudyWindows(dayStart, dayEnd, breaks)]
  /\ UNCHANGED << engineVars, pick, planVars, pushVars >>

NextWindows == CallBuildStudyWindows

SpecWindows == InitWindows /\ [][NextWindows]_vars

(***************************************************************************)
(* Properties of the scheduling engine, checked under SpecPlan.            *)
(***************************************************************************)
DayComputed == day.dayIndex >= 0

RECURSIVE SumLengths(_)
SumLengths(s) ==
  IF s = << >> THEN 0 ELSE (Head(s).end - Head(s).start) + SumLengths(Tail(s))

Interval(x) == [start |-> x.start, end |-> x.end]

RECURSIVE Intervals(_)
Intervals(s) ==
  IF s = << >> THEN << >> ELSE << Interval(Head(s)) >> \o Intervals(Tail(s))

IsStudyItem(item) == item.title[1] = "Study "

\* C1: the items of a run are strictly ascending by start and no item
\* overlaps the next one (its end is at most the next start), inside a day
\* and from one day to the next.
C1_ItemsOrderedDisjoint ==
  \A i \in 1..(Len(items) - 1) :
    /\ items[i].start < items[i + 1].start
    /\ items[i].end <= items[i + 1].start

\* A two-day run over a window that wraps midnight, whose second day holds
\* breaks and several sessions.
C1_Witness ==
  /\ pc = "done"
  /\ args.totalDays = 2
  /\ DayComputed
  /\ day.dayIndex = 1
  /\ day.dayEnd > (day.dayIndex + 1) * MinutesPerDay
  /\ Len(day.breaks) >= 2
  /\ Len(day.sessions) >= 3
  /\ Len(items) >= 8

\* C2: on every day the sessions, and every prefix of them in creation
\* order, total at most min(maxStudyMinutesPerDay, the day's free minutes).
C2_DayCapRespected ==
  DayComputed =>
    \A k \in 0..Len(day.sessions) :
      SumLengths(SubSeq(day.sessions, 1, k))
        <= Min(args.maxStudyMinutesPerDay, SumLengths(day.windows))

\* A day on which the cap, smaller than the free time, stopped the packing
\* short of it: 120 minutes scheduled under a cap of 150.
C2_Witness ==
  /\ DayComputed
  /\ args.maxStudyMinutesPerDay = 150
  /\ SumLengths(day.windows) > 150
  /\ SumLengths(day.sessions) = 120
  /\ Len(day.windows) >= 2

\* The free slots and the breaks of the day, in time order.
DayPieces == SortByStart(Intervals(day.windows) \o Intervals(day.breaks))

PiecesInsideDisjoint ==
  /\ \A i \in 1..Len(DayPieces) :
       /\ day.dayStart <= DayPieces[i].start
       /\ DayPieces[i].start < DayPieces[i].end
       /\ DayPieces[i].end <= day.dayEnd
  /\ \A i \in 1..(Len(DayPieces) - 1) : DayPieces[i].end <= DayPieces[i + 1].start

\* C3 as stated: the free slots and the breaks partition the day window,
\* each minute of it in exactly one of them.
C3_ExactPartition ==
  DayComputed =>
    /\ PiecesInsideDisjoint
    /\ SumLengths(DayPieces) = day.dayEnd - day.dayStart

\* The stretches of the window that lie in no free slot and in no break.
DayGaps ==
  IF DayPieces = << >> THEN { day.dayEnd - day.dayStart }
  ELSE { DayPieces[1].start - day.dayStart, day.dayEnd - DayPieces[Len(DayPieces)].end }
       \cup { DayPieces[i + 1].start - DayPieces[i].end : i \in 1..(Len(DayPieces) - 1) }

\* C3 amended: the free slots and the breaks lie inside the window and no
\* minute is in two of them; the minutes in none of them form stretches
\* shorter than 60 minutes each (the residues buildStudyWindows drops).
C3_PartitionUpToResidues ==
  DayComputed =>
    /\ PiecesInsideDisjoint
    /\ \A g \in DayGaps : g >= 0 /\ g < MIN_BLOCK_MINUTES

\* A day with a break, a free slot and a dropped residue.
C3_Witness ==
  /\ DayComputed
  /\ Len(day.breaks) >= 1
  /\ Len(day.windows) >= 1
  /\ SumLengths(DayPieces) < day.dayEnd - day.dayStart

RECURSIVE StudyTitles(_)
StudyTitles(s) ==
  IF s = << >> THEN << >>
  ELSE (IF IsStudyItem(Head(s)) THEN << Head(s).title >> ELSE << >>) \o StudyTitles(Tail(s))

RECURSIVE Titles(_)
Titles(s) == IF s = << >> THEN << >> ELSE << Head(s).title >> \o Titles(Tail(s))

\* C4: the k-th session sessionLog in a run (from 0) is titled
\* "Study " + subjects[k mod N]; the cursor starts at 0, counts the sessions
\* sessionLog so far across the days, and the plan lists the sessions in that
\* order.
C4_RoundRobin ==
  /\ subjectCursor = Len(sessionLog)
  /\ \A k \in 0..(Len(sessionLog) - 1) :
       sessionLog[k + 1].title =
         << "Study ", args.subjectNames[(k % Len(args.subjectNames)) + 1] >>
  /\ StudyTitles(items) = Titles(sessionLog)

\* Three subjects, at least five sessions over two days, the first day
\* ending in the middle of a round.
C4_Witness ==
  /\ pc = "done"
  /\ Len(args.subjectNames) = 3
  /\ DayComputed
  /\ day.dayIndex = 1
  /\ Len(sessionLog) >= 5
  /\ Len(day.sessions) >= 1
  /\ (Len(sessionLog) - Len(day.sessions)) % 3 # 0

ScenarioArgs ==
  [subjectNames |-> << "Math", "Physics" >>, totalDays |-> 1,
   startTime |-> [hours |-> 9, minutes |-> 0], endTime |-> [hours |-> 17, minutes |-> 0],
   maxStudyMinutesPerDay |-> 420]

ScenarioItem(title, fromHour, toHour) ==
  [subjectId |-> "null", title |-> title, start |-> fromHour * 60, end |-> toHour * 60,
   completed |-> FALSE]

\* C5: subjects [Math, Physics], window 09:00-17:00, one day, cap 420:
\* the plan is 09-11 Study Math, 11-13 Study Physics, 13-14 Lunch Break,
\* 14-16 Study Math, 16-17 Study Physics, and nothing else.
C5_Scenario ==
  (pc = "done" /\ args = ScenarioArgs) =>
    items = << ScenarioItem(<< "Study ", "Math" >>, 9, 11),
               ScenarioItem(<< "Study ", "Physics" >>, 11, 13),
               ScenarioItem(<< "Lunch Break" >>, 13, 14),
               ScenarioItem(<< "Study ", "Math" >>, 14, 16),
               ScenarioItem(<< "Study ", "Physics" >>, 16, 17) >>

\* The scenario's run has returned.
C5_Witness ==
  /\ pc = "done"
  /\ args = ScenarioArgs
  /\ Len(items) = 5
  /\ Len(sessionLog) = 4

\* The fixed break of the day with its nominal start on the day's date,
\* moved a day forward when that start precedes the window.
ExpectedBreak(brk) ==
  LET nominal == day.dayIndex * MinutesPerDay + brk.startHour * 60
      start == IF nominal < day.dayStart THEN nominal + MinutesPerDay ELSE nominal
  IN [title |-> brk.title, start |-> start,
      end |-> start + (brk.endHour - brk.startHour) * 60]

\* C7: the breaks of a day are exactly the fixed breaks that, after the
\* one-day move of those starting before the window, lie inside the window
\* (start >= window start, end <= window end); each is emitted at most
\* once, lasts 60 minutes, and the list is ascending by start.
C7_BreaksContained ==
  DayComputed =>
    /\ \A i \in 1..Len(day.breaks) :
         /\ day.breaks[i].start >= day.dayStart
         /\ day.breaks[i].end <= day.dayEnd
         /\ day.breaks[i].end - day.breaks[i].start = 60
         /\ \E j \in 1..Len(FIXED_BREAKS) : day.breaks[i] = ExpectedBreak(FIXED_BREAKS[j])
         /\ \A k \in 1..Len(day.breaks) :
              day.breaks[k].title = day.breaks[i].title => k = i
    /\ \A j \in 1..Len(FIXED_BREAKS) :
         LET e == ExpectedBreak(FIXED_BREAKS[j])
         IN (e.start >= day.dayStart /\ e.end <= day.dayEnd)
              => \E i \in 1..Len(day.breaks) : day.breaks[i] = e
    /\ \A i \in 1..(Len(day.breaks) - 1) : day.breaks[i].start < day.breaks[i + 1].start

\* An overnight window: a break of the same evening is followed by one
\* moved to the next calendar day, and a third one is left out.
C7_Witness ==
  /\ DayComputed
  /\ Len(day.breaks) = 2
  /\ day.breaks[1].start < (day.dayIndex + 1) * MinutesPerDay
  /\ day.breaks[2].start >= (day.dayIndex + 1) * MinutesPerDay
  /\ day.breaks[2].title = << "Lunch Break" >>

(***************************************************************************)
(* Properties of pickBlockLength, checked under SpecPick.                  *)
(***************************************************************************)
BothAtLeast(n) == pick.slotRemaining >= n /\ pick.capRemaining >= n

\* C8 as stated: for preferred in {0, 60, 120} the result is the preferred
\* length when both remainders reach it, else 60 when both reach 60, else 0.
C8_PickAsStated ==
  pick.called =>
    pick.blockLength =
      IF BothAtLeast(pick.preferred) THEN pick.preferred
      ELSE IF BothAtLeast(60) THEN 60
      ELSE 0

\* C8 amended: for preferred 60 or 120 the result is the preferred length
\* when both remainders reach it, else 60 when both reach 60, else 0; for
\* preferred 0 it is 60 when both remainders reach 60, else 0.
\* pickBlockLength(120, 90, 200) = 60 and pickBlockLength(120, 50, 200) = 0.
C8_PickBlockLength ==
  pick.called =>
    /\ pick.preferred \in {60, 120} =>
         pick.blockLength =
           IF BothAtLeast(pick.preferred) THEN pick.preferred
           ELSE IF BothAtLeast(60) THEN 60
           ELSE 0
    /\ pick.preferred = 0 =>
         pick.blockLength = IF BothAtLeast(60) THEN 60 ELSE 0
    /\ (pick.preferred = 120 /\ pick.slotRemaining = 90 /\ pick.capRemaining = 200)
         => pick.blockLength = 60
    /\ (pick.preferred = 120 /\ pick.slotRemaining = 50 /\ pick.capRemaining = 200)
         => pick.blockLength = 0

\* The call pickBlockLength(120, 90, 200) has returned 60.
C8_Witness ==
  /\ pick.called
  /\ pick.preferred = 120
  /\ pick.slotRemaining = 90
  /\ pick.capRemaining = 200
  /\ pick.blockLength = 60

\* The positions, in creation order, of the day's sessions inside a slot
SessionsIn(slot) ==
  { i \in 1..Len(day.sessions) :
      slot.start <= day.sessions[i].start /\ day.sessions[i].end <= slot.end }

\* Where the unscheduled tail of a slot begins: the end of its last
\* session, or its start when it holds none.
TailStart(slot) ==
  IF SessionsIn(slot) = {} THEN slot.start
  ELSE day.sessions[CHOOSE i \in SessionsIn(slot) :
                      \A j \in SessionsIn(slot) : j <= i].end

\* C14: on every day whose preferred block length is not zero, every
\* session lasts 60 or 120 minutes and lies in a free slot, where it starts
\* at the slot's start or where the session created just before it, in the
\* same slot, ended; and when the packing has ended, fewer than 60 minutes
\* of the day cap remain or the tail of every free slot of the day has
\* fewer than 60 minutes.
C14_GreedyGapFree ==
  (DayComputed /\ day.preferredBlock # 0) =>
    /\ \A i \in 1..Len(day.sessions) :
         /\ minutesBetweenDates(day.sessions[i].start, day.sessions[i].end) \in { 60, 120 }
         /\ \E k \in 1..Len(day.windows) : i \in SessionsIn(day.windows[k])
    /\ \A k \in 1..Len(day.windows) :
         \A i \in SessionsIn(day.windows[k]) :
            \/ day.sessions[i].start = day.windows[k].start
            \/ /\ i - 1 \in SessionsIn(day.windows[k])
               /\ day.sessions[i - 1].end = day.sessions[i].start
    /\ \/ day.dayCap - day.minutesScheduled < 60
       \/ \A k \in 1..Len(day.windows) :
            minutesBetweenDates(TailStart(day.windows[k]), day.windows[k].end) < 60

\* A day packed with 120-minute blocks on which the slots, not the cap,
\* ended the packing: a slot holds a 120-minute session followed at once by
\* a 60-minute one and keeps a tail of 30 minutes, another slot holds
\* sessions too, and 60 minutes or more of the cap are left.
C14_Witness ==
  /\ DayComputed
  /\ day.preferredBlock = 120
  /\ day.dayCap - day.minutesScheduled >= 60
  /\ \E k \in 1..Len(day.windows) :
       /\ minutesBetweenDates(TailStart(day.windows[k]), day.windows[k].end) = 30
       /\ \E i \in SessionsIn(day.windows[k]) :
            /\ i + 1 \in SessionsIn(day.windows[k])
            /\ minutesBetweenDates(day.sessions[i].start, day.sessions[i].end) = 120
            /\ minutesBetweenDates(day.sessions[i + 1].start, day.sessions[i + 1].end) = 60
            /\ day.sessions[i].end = day.sessions[i + 1].start
       /\ \E k2 \in 1..Len(day.windows) : k2 # k /\ SessionsIn(day.windows[k2]) # {}

(***************************************************************************)
(* Properties of buildStudyWindows, checked under SpecWindows.             *)
(***************************************************************************)
SlotInsideWindow(slot) == win.dayStart <= slot.start /\ slot.end <= win.dayEnd

SlotMeetsNoBreak(slot) ==
  \A i \in 1..Len(win.breaks) :
     win.breaks[i].end <= slot.start \/ slot.end <= win.breaks[i].start

\* The slot is a whole gap: it begins at the window's start or where a
\* break ends, and ends at the window's end or where a break starts.
SlotIsWholeGap(slot) ==
  /\ \/ slot.start = win.dayStart
     \/ \E i \in 1..Len(win.breaks) : win.breaks[i].end = slot.start
  /\ \/ slot.end = win.dayEnd
     \/ \E i \in 1..Len(win.breaks) : win.breaks[i].start = slot.end

SlotsAsClaimed ==
  /\ \A k \in 1..Len(win.slots) :
        /\ SlotInsideWindow(win.slots[k])
        /\ minutesBetweenDates(win.slots[k].start, win.slots[k].end) >= MIN_BLOCK_MINUTES
        /\ SlotMeetsNoBreak(win.slots[k])
        /\ SlotIsWholeGap(win.slots[k])
  /\ \A k \in 1..(Len(win.slots) - 1) : win.slots[k].end <= win.slots[k + 1].start

NoBreakStartsAfterDayEnd ==
  \A i \in 1..Len(win.breaks) : win.breaks[i].start <= win.dayEnd

Undefined == [type |-> "undefined"]
Str(text) == [type |-> "string", text |-> text]
Num(n) == [type |-> "number", val |-> n]
Arr(elems) == [type |-> "array", elems |-> elems]

NaN == [nan |-> TRUE, val |-> 0]
Finite(n) == [nan |-> FALSE, val |-> n]

\* String.prototype.trim
Trim(text) ==
  CASE text = " Math " -> "Math"
    [] text = " Physics" -> "Physics"
    [] text = " " -> ""
    [] text = "  " -> ""
    [] OTHER -> text

\* String.prototype.split(','): the pieces between the commas
SplitComma(text) ==
  CASE text = "Math, Physics, " -> << "Math", " Physics", " " >>
    [] text = "" -> << "" >>
    [] OTHER -> << text >>

\* String.prototype.split(':')
SplitColon(text) ==
  CASE text = "09:00" -> << "09", "00" >>
    [] text = "17:00" -> << "17", "00" >>
    [] text = "12:30" -> << "12", "30" >>
    [] text = "13:00" -> << "13", "00" >>
    [] text = "14:30" -> << "14", "30" >>
    [] text = "25:00" -> << "25", "00" >>
    [] text = "17:60" -> << "17", "60" >>
    [] text = "21:00" -> << "21", "00" >>
    [] OTHER -> << text >>

\* Finite(str) of a piece of a time string; a missing piece is undefined
\* and Finite(undefined) is NaN.
NumberOf(pieces, i) ==
  IF i > Len(pieces) THEN NaN
  ELSE CASE pieces[i] = "00" -> Finite(0)
         [] pieces[i] = "09" -> Finite(9)
         [] pieces[i] = "12" -> Finite(12)
         [] pieces[i] = "13" -> Finite(13)
         [] pieces[i] = "14" -> Finite(14)
         [] pieces[i] = "17" -> Finite(17)
         [] pieces[i] = "21" -> Finite(21)
         [] pieces[i] = "25" -> Finite(25)
         [] pieces[i] = "30" -> Finite(30)
         [] pieces[i] = "60" -> Finite(60)
         [] OTHER -> NaN

\* A destructuring default: the value unless it is undefined.
WithDefault(value, text) == IF value.type = "undefined" THEN Str(text) ELSE value

\* parseTimeString: ok is FALSE where it throws.
parseTimeString(value) ==
  IF value.type # "string"
  THEN [ok |-> FALSE, message |-> "Time must be in HH:MM format", hours |-> 0, minutes |-> 0]
  ELSE LET pieces == SplitColon(value.text)
           hours == NumberOf(pieces, 1)
           minutes == NumberOf(pieces, 2)
       IN IF \/ hours.nan \/ minutes.nan
             \/ hours.val < 0 \/ hours.val > 23
             \/ minutes.val < 0 \/ minutes.val > 59
          THEN [ok |-> FALSE, message |-> "Invalid time format", hours |-> 0, minutes |-> 0]
          ELSE [ok |-> TRUE, message |-> "", hours |-> hours.val, minutes |-> minutes.val]

RECURSIVE TrimNonEmpty(_)
TrimNonEmpty(texts) ==
  IF texts = << >> THEN << >>
  ELSE LET t == Trim(Head(texts))
       IN (IF t # "" THEN << t >> ELSE << >>) \o TrimNonEmpty(Tail(texts))

\* The subject names: the trimmed non-empty elements of an array, or pieces
\* of a comma-separated string; anything else gives none.
SubjectNamesOf(subjectsInput) ==
  IF subjectsInput.type = "array" THEN TrimNonEmpty(subjectsInput.elems)
  ELSE IF subjectsInput.type = "string" THEN TrimNonEmpty(SplitComma(subjectsInput.text))
  ELSE << >>

\* startDate ? new Date(startDate) : new Date(), then isNaN(getTime())
AnchorIsValid(startDate) ==
  IF startDate.type = "undefined" THEN TRUE
  ELSE startDate.text = "2026-01-05"

\* parseInt(numDays, 10), numDays defaulting to 1
ParseIntDays(numDays) ==
  IF numDays.type = "undefined" THEN Finite(1)
  ELSE IF numDays.type = "number" THEN Finite(numDays.val)
  ELSE CASE numDays.text = "0" -> Finite(0)
         [] numDays.text = "2" -> Finite(2)
         [] numDays.text = "99" -> Finite(99)
         [] OTHER -> NaN

TotalDaysUnclamped(numDays) ==
  LET requestedDays == ParseIntDays(numDays)
  IN Max(1, IF requestedDays.nan THEN 1 ELSE requestedDays.val)

TotalDaysOf(numDays) ==
  LET requestedDays == ParseIntDays(numDays)
  IN Max(1, Min(MAX_PLANNED_DAYS, IF requestedDays.nan THEN 1 ELSE requestedDays.val))

\* maxHoursPerDay as a number of hours; the model carries hours as whole
\* minutes (hours * 60), which Math.round leaves as they are.
ParsedMaxMinutes(maxHoursPerDay) ==
  IF maxHoursPerDay.type = "number" THEN Finite(maxHoursPerDay.val * 60)
  ELSE IF maxHoursPerDay.type = "string"
       THEN CASE maxHoursPerDay.text = "1" -> Finite(60)
              [] maxHoursPerDay.text = "9" -> Finite(9 * 60)
              [] OTHER -> NaN
       ELSE NaN

MaxStudyMinutesOf(maxHoursPerDay, windowMinutes) ==
  LET parsed == ParsedMaxMinutes(maxHoursPerDay)
      fallback == Min(MAX_STUDY_HOURS_PER_DAY * 60, windowMinutes)
      bounded0 == IF parsed.nan THEN fallback ELSE parsed.val
      bounded == Min(MAX_STUDY_HOURS_PER_DAY * 60, Max(1 * 60, bounded0))
  IN Min(bounded, windowMinutes)

WindowTooShort(windowMinutes) == windowMinutes < MIN_BLOCK_MINUTES

TitleStartsWithStudy(title) == title[1] = "Study "

CountAllItems(planItems) == Len(planItems)

\* planItems.filter(title starts with 'study').length
StudyItemCount(planItems) ==
  Cardinality({ i \in 1..Len(planItems) : TitleStartsWithStudy(planItems[i].title) })

MAX_PLAN_ITEMS == 1000

Reject(status, message) == [status |-> status, message |-> message, planItems |-> << >>]

\* The arguments createPlan passes to buildStructuredPlan, for a body that
\* passed the checks before the call.
RequestArgs(body) ==
  LET startTime == parseTimeString(WithDefault(body.dailyStartTime, "09:00"))
      endTime == parseTimeString(WithDefault(body.dailyEndTime, "17:00"))
      st == [hours |-> startTime.hours, minutes |-> startTime.minutes]
      et == [hours |-> endTime.hours, minutes |-> endTime.minutes]
  IN [subjectNames |-> SubjectNamesOf(body.subjects),
      totalDays |-> TotalDaysOf(body.numDays),
      startTime |-> st,
      endTime |-> et,
      maxStudyMinutesPerDay |-> MaxStudyMinutesOf(body.maxHoursPerDay, WindowMinutesOf(st, et))]

\* The checks on the generated plan.
CheckPlanItems(planItems) ==
  IF StudyItemCount(planItems) = 0
  THEN Reject(400, "Unable to build a study plan with the provided availability")
  ELSE IF Len(planItems) > MAX_PLAN_ITEMS
  THEN Reject(400, "Generated plan is too large")
  ELSE [status |-> 201, message |-> "", planItems |-> planItems]

\* The window check, the call of buildStructuredPlan and the checks on its
\* result.  (A value bound by a set constructor is computed once.)
PlanForArgs(a) ==
  IF WindowTooShort(WindowMinutesOf(a.startTime, a.endTime))
  THEN Reject(400, "Daily availability window is too short for any study session")
  ELSE CHOOSE out \in { CheckPlanItems(planItems) : planItems \in { buildStructuredPlan(a) } } :
         TRUE

\* createPlan up to the call of StudyPlan.create: the rejection it answers
\* with, or status 201 and the items to store.
CreatePlanOutcome(body) ==
  LET subjectNames == SubjectNamesOf(body.subjects)
      startTime == parseTimeString(WithDefault(body.dailyStartTime, "09:00"))
      endTime == parseTimeString(WithDefault(body.dailyEndTime, "17:00"))
  IN IF subjectNames = << >> THEN Reject(400, "At least one subject is required")
     ELSE IF ~AnchorIsValid(body.startDate) THEN Reject(400, "Invalid start date format")
     ELSE IF ~startTime.ok THEN Reject(400, startTime.message)
     ELSE IF ~endTime.ok THEN Reject(400, endTime.message)
     ELSE CHOOSE out \in { PlanForArgs(a) : a \in { RequestArgs(body) } } : TRUE

(***************************************************************************)
(* SpecCreate: createPlan requests of one owner against the StudyPlan      *)
(* collection.                                                             *)
(***************************************************************************)
MaxPlans == 2

SubjectsChoices ==
  { Arr(<< " Math ", "", "Physics" >>), Arr(<< "", "  " >>),
    Str("Math, Physics, "), Undefined }
StartDateChoices == { Undefined, Str("not-a-date") }
StartTimeChoices == { Undefined, Str("12:30"), Str("25:00"), Str("ab") }
EndTimeChoices == { Undefined, Str("13:00"), Str("14:30"), Num(1700), Str("17:60") }
NumDaysChoices == { Str("abc"), Str("0"), Str("2") }
MaxHoursChoices == { Undefined, Str("1") }

Bodies ==
  [subjects : SubjectsChoices, startDate : StartDateChoices,
   dailyStartTime : StartTimeChoices, dailyEndTime : EndTimeChoices,
   numDays : NumDaysChoices, maxHoursPerDay : MaxHoursChoices]

\* StudyPlan.create({ userId, items }): the new document becomes the latest.
StudyPlanCreate(stored, planItems) == Append(stored, [items |-> planItems])

InitCreate ==
  /\ EngineIdle
  /\ PickIdle
  /\ PlansIdle
  /\ PushIdle

\* One createPlan request with a body of the given set, handled to its
\* response.  StudyPlan.create can throw, which the handler answers with 500.
CreatePlanFrom(bodies) ==
  /\ req.op = "none"
  /\ Len(plans) < MaxPlans
  /\ \E body \in bodies, createOk \in BOOLEAN :
       \E out \in { CreatePlanOutcome(body) } :
          /\ req' = [op |-> "createPlan", body |-> body]
          /\ IF out.status # 201
             THEN /\ res' = [status |-> out.status, message |-> out.message, plan |-> << >>]
                  /\ plans' = plans
             ELSE IF createOk
             THEN /\ plans' = StudyPlanCreate(plans, out.planItems)
                  /\ res' = [status |-> 201, message |-> "",
                             plan |-> << [items |-> out.planItems] >>]
             ELSE /\ plans' = plans
                  /\ res' = [status |-> 500, message |-> "Internal server error", plan |-> << >>]
  /\ UNCHANGED << engineVars, pickVars, pushVars >>

CreatePlan == CreatePlanFrom(Bodies)

\* The response has been sent: the handler's req and res are gone.
FinishRequest ==
  /\ req.op # "none"
  /\ req' = NoReq
  /\ res' = NoRes
  /\ UNCHANGED << engineVars, pickVars, plans, pushVars >>

NextCreate == CreatePlan \/ FinishRequest

SpecCreate == InitCreate /\ [][NextCreate]_vars

(***************************************************************************)
(* Properties of createPlan, checked under SpecCreate.                     *)
(***************************************************************************)
\* The cases C6 lists, read off the request body.
C6_FailsValidation(body) ==
  LET startTime == parseTimeString(WithDefault(body.dailyStartTime, "09:00"))
      endTime == parseTimeString(WithDefault(body.dailyEndTime, "17:00"))
      window == (endTime.hours * 60 + endTime.minutes)
                  - (startTime.hours * 60 + startTime.minutes)
      effective == IF window <= 0 THEN window + 24 * 60 ELSE window
  IN \/ SubjectNamesOf(body.subjects) = << >>
     \/ ~AnchorIsValid(body.startDate)
     \/ ~startTime.ok
     \/ ~endTime.ok
     \/ effective < 60
     \/ LET planItems == buildStructuredPlan(RequestArgs(body))
        IN \/ \A i \in 1..Len(planItems) : ~IsStudyItem(planItems[i])
           \/ Len(planItems) > 1000

\* C6: a createPlan request that fails a validation (no subject left after
\* trimming, unparsable start date or time, window under 60 minutes, no
\* study item, more than 1000 items) is answered with 400, returns no plan
\* and leaves the stored plans, hence the current plan, as they were.
C6_RejectedNeverStored ==
  [][ (req'.op = "createPlan" /\ C6_FailsValidation(req'.body))
        => (res'.status = 400 /\ res'.plan = << >> /\ plans' = plans) ]_vars

\* A request whose window fits no session was rejected while the owner
\* already had a plan, which is still the latest one.
C6_Witness ==
  /\ req.op = "createPlan"
  /\ Len(plans) = 1
  /\ res.status = 400
  /\ res.message = "Unable to build a study plan with the provided availability"
  /\ Len(buildStructuredPlan(RequestArgs(req.body))) >= 1

(***************************************************************************)
(* SpecHorizon: createPlan requests that ask for more days and more hours  *)
(* a day than the handler grants, over a window that holds all three fixed *)
(* breaks, with enough subjects for 60-minute blocks.                      *)
(***************************************************************************)
ManySubjects == << "Math", "Physics", "Chemistry", "Biology", "History", "Art", "Music" >>

HorizonBodies ==
  [subjects : { Arr(ManySubjects), Arr(<< " Math ", "", "Physics" >>) },
   startDate : { Undefined },
   dailyStartTime : { Undefined },
   dailyEndTime : { Str("21:00") },
   numDays : { Str("0"), Str("2"), Str("99") },
   maxHoursPerDay : { Str("9") }]

InitHorizon ==
  /\ EngineIdle
  /\ PickIdle
  /\ PlansIdle
  /\ PushIdle

HorizonCreatePlan == CreatePlanFrom(HorizonBodies)

NextHorizon == HorizonCreatePlan \/ FinishRequest

SpecHorizon == InitHorizon /\ [][NextHorizon]_vars

(***************************************************************************)
(* Properties of the size of a plan, checked under SpecHorizon.            *)
(***************************************************************************)
ItemInWindow(item, window) ==
  window.dayStart <= item.start /\ item.end <= window.dayEnd

\* The positions of the items of planItems that lie in the window of a day
ItemsInWindow(planItems, window) ==
  { i \in 1..Len(planItems) : ItemInWindow(planItems[i], window) }

DaySizeBounded(planItems, window) ==
  LET ofDay == ItemsInWindow(planItems, window)
      study == { i \in ofDay : IsStudyItem(planItems[i]) }
  IN /\ Cardinality(study) <= 8
     /\ Cardinality(ofDay \ study) <= 3
     /\ Cardinality(ofDay) <= 11
     /\ \A i \in study :
          minutesBetweenDates(planItems[i].start, planItems[i].end) >= 60

PlanSizeBounded(a, planItems) ==
  /\ a.totalDays \in 1..60
  /\ a.maxStudyMinutesPerDay \in 60..480
  /\ a.maxStudyMinutesPerDay <= WindowMinutesOf(a.startTime, a.endTime)
  /\ \A d \in 0..(a.totalDays - 1) :
       DaySizeBounded(planItems, getDailyWindow(d, a.startTime, a.endTime))
  /\ \A i \in 1..Len(planItems) :
       \E d \in 0..(a.totalDays - 1) :
          ItemInWindow(planItems[i], getDailyWindow(d, a.startTime, a.endTime))
  /\ Len(planItems) <= 660

\* C13: a createPlan request that passes the validations before the plan is
\* generated has its horizon in 1..60 and its daily cap in 60..480 minutes
\* and within the window; the plan has at most 8 study sessions, each of at
\* least 60 minutes, and at most 3 breaks, so at most 11 items, in every
\* day, and at most 660 items in all; no request is answered with
\* 'Generated plan is too large'.
C13_PlanNeverTooLarge ==
  req.op = "createPlan" =>
    /\ res.message # "Generated plan is too large"
    /\ res.status = 201 =>
         \E a \in { RequestArgs(req.body) } : PlanSizeBounded(a, res.plan[1].items)

\* A request for 99 days of 9 hours with seven subjects over 09:00-21:00 was
\* granted 60 days of 8 sessions and 3 breaks: a plan of 660 items.
C13_Witness ==
  /\ req.op = "createPlan"
  /\ req.body.numDays = Str("99")
  /\ req.body.maxHoursPerDay = Str("9")
  /\ res.status = 201
  /\ Len(res.plan[1].items) = 660
  /\ plans # << >>
  /\ plans[Len(plans)].items = res.plan[1].items

(***************************************************************************)
(* pushPlanToGoogle                                                        *)
(***************************************************************************)
MaxItems == 6

TOKEN_LIFETIME_MINUTES == 55
MAX_ERRORS_RETURNED == 5

\* The time value of an invalid Date (getTime() is NaN); instants are >= 0.
InvalidDate == -1
DateIsNaN(t) == t = InvalidDate

NeedsRefreshNoExpiryTest(google, clock) ==
  google.accessToken = NoToken \/ ~google.tokenExpiry.set

\* !accessToken || !tokenExpiry || new Date() >= new Date(tokenExpiry)
NeedsRefresh(google, clock) ==
  \/ google.accessToken = NoToken
  \/ ~google.tokenExpiry.set
  \/ clock >= google.tokenExpiry.at

\* errors.slice(0, 5)
FirstErrors(errs) == SubSeq(errs, 1, Min(MAX_ERRORS_RETURNED, Len(errs)))

AfterFailureStop(i, n) == n + 1

\* The loop goes on with the next item after a failed one (the continue
\* and the catch inside the loop).
AfterFailure(i, n) == i + 1

PushResponse(status, message) ==
  [status |-> status, message |-> message, ok |-> FALSE, created |-> 0, total |-> 0,
   errors |-> << >>]

\* The response after the loop.
BatchResponse(createdCount, errs, total) ==
  IF createdCount = 0 /\ Len(errs) > 0
  THEN [status |-> 400, message |-> "Failed to create events", ok |-> FALSE,
        created |-> 0, total |-> 0, errors |-> FirstErrors(errs)]
  ELSE [status |-> 200, message |-> "", ok |-> TRUE, created |-> createdCount,
        total |-> total, errors |-> FirstErrors(errs)]

(***************************************************************************)
(* SpecPush: one pushPlanToGoogle request, one step per await.             *)
(***************************************************************************)
ExpiryAt == 60
NowChoices == { ExpiryAt - 1, ExpiryAt }

GoogleChoices ==
  [refreshToken : BOOLEAN, accessToken : { NoToken, "stored" },
   tokenExpiry : { NoExpiry, [set |-> TRUE, at |-> ExpiryAt] }]

\* A stored plan item at position i, its dates valid or not.
StoredItem(i, datesOk) ==
  [subjectId |-> "null", title |-> StudyTitle(AllSubjects[((i - 1) % Len(AllSubjects)) + 1]),
   start |-> IF datesOk \/ i % 2 = 0 THEN i * 60 ELSE InvalidDate,
   end |-> IF datesOk \/ i % 2 = 1 THEN (i + 1) * 60 ELSE InvalidDate,
   completed |-> FALSE]

StoredItemLists ==
  UNION { { [i \in 1..n |-> StoredItem(i, ok[i])] : ok \in [1..n -> BOOLEAN] } : n \in 0..MaxItems }

InitPush ==
  /\ EngineIdle
  /\ PickIdle
  /\ req = NoReq
  /\ res = NoRes
  /\ plans \in { << >> } \cup { << [items |-> its] >> : its \in StoredItemLists }
  /\ user \in { [exists |-> FALSE, google |-> NoGoogle] }
               \cup { [exists |-> TRUE, google |-> g] : g \in GoogleChoices }
  /\ env \in { [clientId |-> TRUE, redirectUri |-> TRUE],
               [clientId |-> FALSE, redirectUri |-> TRUE] }
  /\ now \in NowChoices
  /\ gpc = "idle"
  /\ before = NoGoogle
  /\ refreshed = NoRefresh
  /\ plan = << >>
  /\ idx = 0
  /\ created = 0
  /\ errors = << >>
  /\ inserted = << >>

\* The request up to the token check: the user is loaded and the
\* credentials and the configuration are examined.
PushStart ==
  /\ gpc = "idle"
  /\ req' = [op |-> "pushPlanToGoogle"]
  /\ before' = user.google
  /\ IF ~user.exists
     THEN gpc' = "done" /\ res' = PushResponse(404, "User not found")
     ELSE IF ~user.google.refreshToken
     THEN gpc' = "done" /\ res' = PushResponse(400, "Google Calendar not connected")
     ELSE IF ~(env.clientId /\ env.redirectUri)
     THEN gpc' = "done" /\ res' = PushResponse(500, "Google OAuth configuration missing")
     ELSE IF NeedsRefresh(user.google, now)
     THEN gpc' = "refresh" /\ res' = res
     ELSE gpc' = "loadPlan" /\ res' = res
  /\ UNCHANGED << engineVars, pickVars, plans, user, env, now, refreshed, plan, idx,
                  created, errors, inserted >>

\* getAccessToken and user.save succeed: the new token and expiry are stored.
RefreshToken ==
  /\ gpc = "refresh"
  /\ \E token \in { "fresh", NoToken } :
       /\ user' = [user EXCEPT !.google.accessToken = token,
                               !.google.tokenExpiry =
                                 [set |-> TRUE, at |-> now + TOKEN_LIFETIME_MINUTES]]
       /\ refreshed' = [done |-> TRUE, failed |-> FALSE, token |-> token]
  /\ gpc' = "loadPlan"
  /\ UNCHANGED << engineVars, pickVars, planVars, env, now, before, plan, idx, created,
                  errors, inserted >>

\* getAccessToken or user.save throws: the export ends with 401.
RefreshFails ==
  /\ gpc = "refresh"
  /\ refreshed' = [done |-> FALSE, failed |-> TRUE, token |-> NoToken]
  /\ gpc' = "done"
  /\ res' = PushResponse(401, "Failed to refresh Google token")
  /\ UNCHANGED << engineVars, pickVars, plans, req, user, env, now, before, plan, idx,
                  created, errors, inserted >>

\* The latest plan is read; none, or one without items, ends with 400.
LoadPlan ==
  /\ gpc = "loadPlan"
  /\ IF plans = << >> \/ plans[Len(plans)].items = << >>
     THEN /\ gpc' = "done"
          /\ res' = PushResponse(400, "No study plan found")
          /\ UNCHANGED << plan, idx >>
     ELSE /\ gpc' = "insert"
          /\ plan' = plans[Len(plans)].items
          /\ idx' = 1
          /\ res' = res
  /\ UNCHANGED << engineVars, pickVars, plans, req, user, env, now, before, refreshed,
                  created, errors, inserted >>

\* An item with an invalid date: an error is collected, nothing is inserted.
SkipInvalidItem ==
  /\ gpc = "insert"
  /\ idx <= Len(plan)
  /\ DateIsNaN(plan[idx].start) \/ DateIsNaN(plan[idx].end)
  /\ errors' = Append(errors, [text |-> "Invalid date for", title |-> plan[idx].title])
  /\ idx' = AfterFailure(idx, Len(plan))
  /\ UNCHANGED << engineVars, pickVars, planVars, user, env, now, gpc, before, refreshed,
                  plan, created, inserted >>

\* calendar.events.insert for an item with valid dates: it answers with
\* data, answers without, or throws.
InsertItem ==
  /\ gpc = "insert"
  /\ idx <= Len(plan)
  /\ ~(DateIsNaN(plan[idx].start) \/ DateIsNaN(plan[idx].end))
  /\ \E outcome \in { "data", "nodata", "throws" } :
       /\ inserted' = Append(inserted, [index |-> idx, outcome |-> outcome])
       /\ created' = IF outcome = "data" THEN created + 1 ELSE created
       /\ errors' = IF outcome = "throws"
                    THEN Append(errors, [text |-> "insert failed", title |-> plan[idx].title])
                    ELSE errors
       /\ idx' = IF outcome = "throws" THEN AfterFailure(idx, Len(plan)) ELSE idx + 1
  /\ UNCHANGED << engineVars, pickVars, planVars, user, env, now, gpc, before, refreshed,
                  plan >>

\* The loop is over: the batch is reported.
Respond ==
  /\ gpc = "insert"
  /\ idx > Len(plan)
  /\ gpc' = "done"
  /\ res' = BatchResponse(created, errors, Len(plan))
  /\ UNCHANGED << engineVars, pickVars, plans, req, user, env, now, before, refreshed,
                  plan, idx, created, errors, inserted >>

NextPush ==
  \/ PushStart
  \/ RefreshToken
  \/ RefreshFails
  \/ LoadPlan
  \/ SkipInvalidItem
  \/ InsertItem
  \/ Respond

SpecPush == InitPush /\ [][NextPush]_vars

(***************************************************************************)
(* Properties of pushPlanToGoogle, checked under SpecPush.                 *)
(***************************************************************************)
ItemDatesValid(i) == plan[i].start # InvalidDate /\ plan[i].end # InvalidDate

\* The positions before n of the items with valid dates, in plan order.
RECURSIVE ValidPositionsBefore(_)
ValidPositionsBefore(n) ==
  IF n <= 1 THEN << >>
  ELSE ValidPositionsBefore(n - 1) \o (IF ItemDatesValid(n - 1) THEN << n - 1 >> ELSE << >>)

RECURSIVE InsertedPositions(_)
InsertedPositions(log) ==
  IF log = << >> THEN << >> ELSE << Head(log).index >> \o InsertedPositions(Tail(log))

OutcomeCount(outcome) == Cardinality({ k \in 1..Len(inserted) : inserted[k].outcome = outcome })

BatchReported == gpc = "done" /\ plan # << >> /\ idx > Len(plan)

\* C9: whatever failed before, an insert is attempted for every item with
\* valid dates, in plan order; the batch answers 400 with created 0
\* exactly when nothing was created and an error was collected, otherwise
\* ok with the number created and total = the number of items; at most
\* five error messages are returned, the first ones collected.
C9_BatchSurvivesFailures ==
  /\ gpc \in { "insert", "done" } /\ plan # << >>
       => /\ InsertedPositions(inserted) = ValidPositionsBefore(idx)
          /\ created = OutcomeCount("data")
          /\ Len(errors) = (idx - 1) - Len(inserted) + OutcomeCount("throws")
  /\ BatchReported
       => /\ idx = Len(plan) + 1
          /\ (res.status = 400) <=> (created = 0 /\ Len(errors) > 0)
          /\ res.status = 400 => (res.message = "Failed to create events" /\ res.created = 0)
          /\ res.status # 400 =>
               (res.status = 200 /\ res.ok /\ res.created = created /\ res.total = Len(plan))
          /\ Len(res.errors) <= 5
          /\ res.errors = SubSeq(errors, 1, Len(res.errors))
          /\ Len(res.errors) = IF Len(errors) < 5 THEN Len(errors) ELSE 5

\* A reported batch whose first insert was rejected and whose second item
\* had invalid dates, with events created for later items.
C9_Witness ==
  /\ BatchReported
  /\ Len(plan) >= 4
  /\ inserted # << >>
  /\ inserted[1].index = 1
  /\ inserted[1].outcome = "throws"
  /\ ~ItemDatesValid(2)
  /\ res.status = 200
  /\ res.created >= 2
  /\ Len(res.errors) >= 2

TokenStale(google) ==
  \/ google.accessToken = ""
  \/ ~google.tokenExpiry.set
  \/ google.tokenExpiry.at <= now

\* C10: an event is inserted only for a user with a refresh token; when
\* the stored access token was missing, without expiry or expired at the
\* request, the token was refreshed and the new token and expiry saved
\* before the first insert; a failed refresh ends the export with 401 and
\* without any insert.
C10_RefreshBeforeInsert ==
  /\ inserted # << >> => before.refreshToken
  /\ (inserted # << >> /\ TokenStale(before))
       => /\ refreshed.done
          /\ user.google.accessToken = refreshed.token
          /\ user.google.tokenExpiry = [set |-> TRUE, at |-> now + 55]
  /\ refreshed.failed => (gpc = "done" /\ res.status = 401)
  /\ (gpc = "done" /\ res.status = 401) => inserted = << >>
  /\ (gpc \in { "loadPlan", "insert" } /\ TokenStale(before)) => refreshed.done

\* The stored token had expired at the request; it was refreshed and
\* events were then inserted.
C10_Witness ==
  /\ before.accessToken = "stored"
  /\ before.tokenExpiry.set
  /\ before.tokenExpiry.at <= now
  /\ refreshed.done
  /\ user.google.accessToken = "fresh"
  /\ Len(inserted) >= 2

(***************************************************************************)
(* getPlan and updatePlanItemCompletion                                    *)
(*                                                                         *)
(* The _id of a stored item is modelled as the pair of the number of its   *)
(* plan (in order of creation) and its position in the plan's items, so    *)
(* that ids are unique across plans as ObjectIds are.                      *)
(***************************************************************************)
Bool(b) == [type |-> "boolean", val |-> b]

\* StudyPlan.findOne({ userId }).sort({ createdAt: -1 }): the number of the
\* owner's most recently created plan, 0 when the owner has none.
LatestPlanIndex(stored) == Len(stored)

\* plan.items.id(itemId): the position of the item of that id in the items
\* of plan number planNo, 0 when the plan has no such item.
ItemPosition(planNo, planItems, itemId) ==
  IF itemId[1] = planNo /\ itemId[2] \in 1..Len(planItems) THEN itemId[2] ELSE 0

SetEveryItemCompleted(planItems, pos, completed) ==
  [i \in 1..Len(planItems) |-> [planItems[i] EXCEPT !.completed = completed]]

\* item.completed = completed
SetItemCompleted(planItems, pos, completed) ==
  [planItems EXCEPT ![pos].completed = completed]

\* plan.save() of the latest plan with its items replaced
SavePlanItems(stored, planNo, planItems) ==
  [stored EXCEPT ![planNo].items = planItems]

\* res.json(latest || { items: [] })
GetPlanResponse(stored) ==
  IF LatestPlanIndex(stored) = 0 THEN [items |-> << >>]
  ELSE stored[LatestPlanIndex(stored)]

(***************************************************************************)
(* SpecStore: createPlan, getPlan and updatePlanItemCompletion requests of *)
(* one owner against the StudyPlan collection.                             *)
(***************************************************************************)
\* Bodies that differ in the daily window only: 09:00-17:00, 09:00-13:00 and
\* 12:30-17:00 give three different plans, 12:30-13:00 is rejected.
StoreBodies ==
  { body \in Bodies :
      /\ body.subjects = Arr(<< " Math ", "", "Physics" >>)
      /\ body.startDate = Undefined
      /\ body.dailyStartTime \in { Undefined, Str("12:30") }
      /\ body.dailyEndTime \in { Undefined, Str("13:00") }
      /\ body.numDays = Str("0")
      /\ body.maxHoursPerDay = Str("1") }

MaxItemPosition == 2
ItemIdChoices == (0..MaxPlans) \X (1..MaxItemPosition)
CompletedChoices == { Bool(TRUE), Bool(FALSE), Str("true"), Undefined }

InitStore ==
  /\ EngineIdle
  /\ PickIdle
  /\ PlansIdle
  /\ PushIdle

StoreCreatePlan == CreatePlanFrom(StoreBodies)

\* One getPlan request, handled to its response; findOne can throw.
GetPlan ==
  /\ req.op = "none"
  /\ \E findOk \in BOOLEAN :
       /\ req' = [op |-> "getPlan"]
       /\ res' = IF findOk
                 THEN [status |-> 200, message |-> "", plan |-> << GetPlanResponse(plans) >>]
                 ELSE [status |-> 500, message |-> "Internal server error", plan |-> << >>]
  /\ plans' = plans
  /\ UNCHANGED << engineVars, pickVars, pushVars >>

\* One updatePlanItemCompletion request, handled to its response; a
\* database call can throw, which the handler answers with 500.
UpdatePlanItemCompletion ==
  /\ req.op = "none"
  /\ \E itemId \in ItemIdChoices, completed \in CompletedChoices, saveOk \in BOOLEAN :
       LET planNo == LatestPlanIndex(plans)
           pos == IF planNo = 0 THEN 0 ELSE ItemPosition(planNo, plans[planNo].items, itemId)
       IN /\ req' = [op |-> "updatePlanItemCompletion", itemId |-> itemId,
                     completed |-> completed]
          /\ IF completed.type # "boolean"
             THEN /\ res' = [status |-> 400, message |-> "completed must be a boolean"]
                  /\ plans' = plans
             ELSE IF planNo = 0
             THEN /\ res' = [status |-> 404, message |-> "No study plan found"]
                  /\ plans' = plans
             ELSE IF pos = 0
             THEN /\ res' = [status |-> 404, message |-> "Plan item not found"]
                  /\ plans' = plans
             ELSE IF saveOk
             THEN /\ plans' = SavePlanItems(plans, planNo,
                                  SetItemCompleted(plans[planNo].items, pos, completed.val))
                  /\ res' = [status |-> 200, message |-> ""]
             ELSE /\ plans' = plans
                  /\ res' = [status |-> 500, message |-> "Internal server error"]
  /\ UNCHANGED << engineVars, pickVars, pushVars >>

NextStore == StoreCreatePlan \/ GetPlan \/ UpdatePlanItemCompletion \/ FinishRequest

SpecStore == InitStore /\ [][NextStore]_vars

(***************************************************************************)
(* Properties of the stored plans, checked under SpecStore.                *)
(***************************************************************************)
\* Everything of an item but its completed flag
ItemContent(item) ==
  [subjectId |-> item.subjectId, title |-> item.title,
   start |-> item.start, end |-> item.end]

\* The request of this step is an updatePlanItemCompletion request that the
\* handler refuses: completed is no boolean, the owner has no plan, or the
\* latest plan has no item of that id.
UpdateRefused ==
  /\ req.op = "none"
  /\ req'.op = "updatePlanItemCompletion"
  /\ \/ req'.completed.type # "boolean"
     \/ plans = << >>
     \/ req'.itemId[1] # Len(plans)
     \/ req'.itemId[2] > Len(plans[Len(plans)].items)

\* C11: once a plan is stored, no step removes or reorders plans or items or
\* changes the title, start, end or subject reference of an item; a
\* completed flag changes only in a step of updatePlanItemCompletion, only
\* in the latest plan, only for the item named by itemId, and to the boolean
\* of the request; a request that is refused (completed no boolean, no plan,
\* item id not in the latest plan) changes nothing.
C11_OnlyCompletionChanges ==
  [][ /\ Len(plans') >= Len(plans)
      /\ \A p \in 1..Len(plans) :
           /\ Len(plans'[p].items) = Len(plans[p].items)
           /\ \A i \in 1..Len(plans[p].items) :
                /\ ItemContent(plans'[p].items[i]) = ItemContent(plans[p].items[i])
                /\ plans'[p].items[i].completed # plans[p].items[i].completed
                     => /\ req'.op = "updatePlanItemCompletion"
                        /\ p = Len(plans)
                        /\ req'.itemId = << p, i >>
                        /\ req'.completed.type = "boolean"
                        /\ plans'[p].items[i].completed = req'.completed.val
      /\ UpdateRefused => plans' = plans
    ]_vars

\* The owner has two plans; an update has just set the flag of one item of
\* the latest plan, whose other item is still not completed, and an item of
\* the older plan, completed while that plan was the latest, is still so.
C11_Witness ==
  /\ Len(plans) = 2
  /\ req.op = "updatePlanItemCompletion"
  /\ res.status = 200
  /\ req.itemId[1] = 2
  /\ plans[2].items[req.itemId[2]].completed
  /\ \E i \in 1..Len(plans[2].items) : ~plans[2].items[i].completed
  /\ \E i \in 1..Len(plans[1].items) : plans[1].items[i].completed

=============================================================================
